---- MODULE Spec2Model ----
(***************************************************************************)
(* Model of FindDuplicates.py: the command line (build_argparse), the      *)
(* directory walk that indexes files by size (build_hash_table), the       *)
(* hashing pass that groups files by digest (check_for_duplicates with     *)
(* get_hash and chunk_reader) and the printing loop of the main block.     *)
(*                                                                         *)
(* A path is a sequence of components, a component a sequence of           *)
(* characters, so that str.startswith, os.path.join and os.path.basename   *)
(* are computed rather than assumed.  File content is a sequence of bytes. *)
(* sha512 is modelled as injective: the digest of a stream is the stream   *)
(* of bytes that was fed to hash_object.update.                            *)
(***************************************************************************)
EXTENDS Integers, Sequences, FiniteSets, TLC

(* Longest file content of the model, in bytes. *)
MaxLen == 5

(* chunk_size passed by the main block (65000 in the source), scaled down  *)
(* so that files longer than one chunk exist in the model.                 *)
ChunkSize == 2

---------------------------------------------------------------------------
(* Names and paths of the modelled directory tree.                         *)

R == <<"r">>
A == <<"a">>
B == <<"b">>
L == <<"l">>
D == <<"d">>
DotC == <<".", "c">>
DotH == <<".", "h">>
X == <<"x">>

RootDir == <<R>>
HiddenDir == <<R, DotH>>
SubDir == <<R, D>>
MissingDir == <<X>>

PathA == <<R, A>>
PathB == <<R, B>>
PathL == <<R, L>>
PathDotC == <<R, DotC>>
PathHA == <<R, DotH, A>>
PathDA == <<R, D, A>>

(* Directories, in the order os.walk yields them (top-down). *)
DirSeq == <<RootDir, HiddenDir, SubDir>>

(* Candidate directory entries, in the order os.walk lists them.           *)
SlotSeq == <<PathA, PathB, PathL, PathDotC, PathHA, PathDA>>

Range(s) == {s[i] : i \in DOMAIN s}

Slots == Range(SlotSeq)

AllOnes == [i \in 1..MaxLen |-> 1]

(* File contents: one short file and three files of MaxLen bytes which     *)
(* differ in the first byte or only in the last byte.                      *)
Contents ==
  { <<1>>, AllOnes, [AllOnes EXCEPT ![1] = 2], [AllOnes EXCEPT ![MaxLen] = 2] }

Modes == {"ok", "noperm", "ioerr"}

NoNode == [kind |-> "none", content |-> <<>>, mode |-> "ok", target |-> <<>>]
FileNode(c, m) == [kind |-> "file", content |-> c, mode |-> m, target |-> <<>>]
LinkNode(t) == [kind |-> "link", content |-> <<>>, mode |-> "ok", target |-> t]

(* What each slot of the tree may hold. *)
SlotChoices(p) ==
  IF p = PathA THEN {NoNode} \cup {FileNode(c, m) : c \in Contents, m \in Modes}
  ELSE IF p = PathL THEN {NoNode, LinkNode(PathA), LinkNode(PathDotC)}
  ELSE {NoNode} \cup {FileNode(c, "ok") : c \in Contents}

FileSystems ==
  { (PathA :> a) @@ (PathB :> b) @@ (PathL :> l) @@ (PathDotC :> c)
      @@ (PathHA :> h) @@ (PathDA :> d) :
    a \in SlotChoices(PathA), b \in SlotChoices(PathB),
    l \in SlotChoices(PathL), c \in SlotChoices(PathDotC),
    h \in SlotChoices(PathHA), d \in SlotChoices(PathDA) }

(* An option that is not on the command line. *)
NoArg == <<>>

(* Values of --root_dir and of a --chunk_size option on the command line. *)
RootArgs == {NoArg, RootDir, MissingDir, PathA}
ChunkArgs == {NoArg, <<-1>>, <<0>>, <<1>>}

VARIABLES
  fs,          \* the directory tree: slot -> node
  argv,        \* the command line: [root_dir, chunk_size]
  pc,          \* position of the main block
  args,        \* result of build_argparse
  walk_i,      \* number of directory entries build_hash_table has visited
  table,       \* hash_table: size -> paths, as an insertion-ordered dict
  hash_i,      \* number of candidates check_for_duplicates has visited
  duplicates,  \* digest -> paths, as an insertion-ordered dict
  hash_calls,  \* the calls of get_hash made so far
  print_i,     \* number of groups the printing loop has visited
  reported,    \* the groups printed so far
  exit_code

vars == <<fs, argv, pc, args, walk_i, table, hash_i, duplicates, hash_calls,
          print_i, reported, exit_code>>

---------------------------------------------------------------------------
(* Filesystem primitives.                                                  *)

startswith(s, c) == Len(s) >= 1 /\ s[1] = c

join(dir_path, file_name) == Append(dir_path, file_name)

basename(p) == p[Len(p)]

dirname(p) == SubSeq(p, 1, Len(p) - 1)

Node(p) == IF p \in Slots THEN fs[p] ELSE NoNode

isdir(p) == p \in Range(DirSeq)

(* os.path.realpath: a symlink resolves to its target, any other path      *)
(* (existing or not) to itself.                                            *)
realpath(p) == IF Node(p).kind = "link" THEN Node(p).target ELSE p

(* os.path.getsize: the size of a regular file, OSError otherwise. *)
getsize(p) ==
  IF Node(p).kind = "file"
    THEN [ok |-> TRUE, size |-> Len(Node(p).content)]
    ELSE [ok |-> FALSE, size |-> 0]

(* file.read(n): at most n bytes, everything for a negative n. *)
read(data, n) ==
  IF n < 0 \/ n >= Len(data) THEN data ELSE SubSeq(data, 1, n)

rest(data, chunk) == SubSeq(data, Len(chunk) + 1, Len(data))

RECURSIVE chunk_reader(_, _)
chunk_reader(data, chunk_size) ==
  LET chunk == read(data, chunk_size)
  IN IF chunk = <<>> THEN <<>>
     ELSE <<chunk>> \o chunk_reader(rest(data, chunk), chunk_size)

(* hash_object.update on each chunk in turn: the bytes fed to the hash. *)
RECURSIVE Concat(_)
Concat(chunks) ==
  IF chunks = <<>> THEN <<>> ELSE Head(chunks) \o Concat(Tail(chunks))

Raised(e) == [ok |-> FALSE, exc |-> e, digest |-> <<>>]

Digest(d) == [ok |-> TRUE, exc |-> "", digest |-> d]

(* A plausible slip: the first_chunk_only branch taken whatever the flag.  *)
get_hash_first_chunk(filename, first_chunk_only, chunk_size) ==
  LET n == Node(filename)
  IN IF n.kind # "file" THEN Raised("FileNotFoundError")
     ELSE IF n.mode = "noperm" THEN Raised("PermissionError")
     ELSE IF n.mode = "ioerr" THEN Raised("OSError")
     ELSE Digest(read(n.content, chunk_size))

get_hash(filename, first_chunk_only, chunk_size) ==
  LET n == Node(filename)
  IN IF n.kind # "file" THEN Raised("FileNotFoundError")
     ELSE IF n.mode = "noperm" THEN Raised("PermissionError")
     ELSE IF n.mode = "ioerr" THEN Raised("OSError")
     ELSE IF first_chunk_only THEN Digest(read(n.content, chunk_size))
     ELSE Digest(Concat(chunk_reader(n.content, chunk_size)))

---------------------------------------------------------------------------
(* Insertion-ordered dictionaries (defaultdict(list)).                     *)

Keys(d) == {d[i].key : i \in DOMAIN d}

Index(d, k) == CHOOSE i \in DOMAIN d : d[i].key = k

(* d[k].append(v) *)
DictAppend(d, k, v) ==
  IF k \in Keys(d)
    THEN [d EXCEPT ![Index(d, k)].val = Append(@, v)]
    ELSE Append(d, [key |-> k, val |-> <<v>>])

(* d.values(), flattened by the nested for loops. *)
RECURSIVE Flatten(_)
Flatten(d) == IF d = <<>> THEN <<>> ELSE Head(d).val \o Flatten(Tail(d))

---------------------------------------------------------------------------
(* os.walk(abs_path): the (dir_path, file_name) pairs in listing order;    *)
(* nothing when the top is missing or is not a directory.                  *)

Under(p, top) == Len(p) >= Len(top) /\ SubSeq(p, 1, Len(top)) = top

file_names(dir_path) ==
  SelectSeq(SlotSeq, LAMBDA p : dirname(p) = dir_path /\ fs[p].kind # "none")

RECURSIVE WalkDirs(_)
WalkDirs(dirs) ==
  IF dirs = <<>> THEN <<>>
  ELSE file_names(Head(dirs)) \o WalkDirs(Tail(dirs))

os_walk(top) ==
  IF ~isdir(top) THEN <<>>
  ELSE WalkDirs(SelectSeq(DirSeq, LAMBDA d : Under(d, top)))

---------------------------------------------------------------------------
(* The command line.                                                       *)

(* A parser that tolerates options it does not know. *)
parse_known_args(av) ==
  IF av.root_dir = NoArg THEN [ok |-> FALSE, root_dir |-> NoArg]
  ELSE [ok |-> TRUE, root_dir |-> av.root_dir]

(* build_argparse: --root_dir is required and is the only option, every    *)
(* other argument is a usage error.                                        *)
build_argparse(av) ==
  IF av.root_dir = NoArg \/ av.chunk_size # NoArg
    THEN [ok |-> FALSE, root_dir |-> NoArg]
    ELSE [ok |-> TRUE, root_dir |-> av.root_dir]

(* validate_chunk_size (not registered with the parser): raising for a non *)
(* positive value.                                                         *)
validate_chunk_size(value) ==
  IF value <= 0 THEN [ok |-> FALSE, value |-> value]
  ELSE [ok |-> TRUE, value |-> value]

---------------------------------------------------------------------------

Init ==
  /\ fs \in FileSystems
  /\ argv \in [root_dir : RootArgs, chunk_size : ChunkArgs]
  /\ pc = "parse"
  /\ args = [ok |-> FALSE, root_dir |-> NoArg]
  /\ walk_i = 0
  /\ table = <<>>
  /\ hash_i = 0
  /\ duplicates = <<>>
  /\ hash_calls = <<>>
  /\ print_i = 0
  /\ reported = <<>>
  /\ exit_code = -1

(* args = build_argparse(): parser.parse_args exits with status 2 on a     *)
(* usage error.                                                            *)
ParseArgs ==
  /\ pc = "parse"
  /\ args' = build_argparse(argv)
  /\ IF args'.ok
       THEN pc' = "walk" /\ exit_code' = exit_code
       ELSE pc' = "exit" /\ exit_code' = 2
  /\ UNCHANGED <<fs, argv, walk_i, table, hash_i, duplicates, hash_calls,
                 print_i, reported>>

abs_path == args.root_dir

(* One iteration of the inner loop of build_hash_table. *)
WalkEntry ==
  /\ pc = "walk"
  /\ walk_i < Len(os_walk(abs_path))
  /\ walk_i' = walk_i + 1
  /\ LET entry == os_walk(abs_path)[walk_i + 1]
         dir_path == dirname(entry)
         file_name == basename(entry)
         file_absolute_path == realpath(join(dir_path, file_name))
         file_size == getsize(file_absolute_path)
     IN IF startswith(file_name, ".") THEN table' = table
        ELSE IF file_size.ok
          THEN table' = DictAppend(table, file_size.size, file_absolute_path)
        ELSE table' = table
  /\ UNCHANGED <<fs, argv, pc, args, hash_i, duplicates, hash_calls, print_i,
                 reported, exit_code>>

(* return hash_table *)
WalkReturn ==
  /\ pc = "walk"
  /\ walk_i = Len(os_walk(abs_path))
  /\ pc' = "hash"
  /\ UNCHANGED <<fs, argv, args, walk_i, table, hash_i, duplicates,
                 hash_calls, print_i, reported, exit_code>>

(* except OSError: the exceptions the handler of check_for_duplicates      *)
(* catches (FileNotFoundError and PermissionError are subclasses).         *)
CatchesOnlyNotFound(exc) == exc = "FileNotFoundError"

IsOSError(exc) == exc \in {"OSError", "FileNotFoundError", "PermissionError"}

(* One iteration of the inner loop of check_for_duplicates. *)
HashCandidate ==
  /\ pc = "hash"
  /\ hash_i < Len(Flatten(table))
  /\ hash_i' = hash_i + 1
  /\ LET candidate_path == Flatten(table)[hash_i + 1]
         full_hash == get_hash(candidate_path, FALSE, ChunkSize)
     IN /\ hash_calls' = Append(hash_calls,
             [path |-> candidate_path, first_chunk_only |-> FALSE,
              chunk_size |-> ChunkSize])
        /\ IF full_hash.ok
             THEN /\ duplicates' =
                       DictAppend(duplicates, full_hash.digest, candidate_path)
                  /\ UNCHANGED <<pc, exit_code>>
           ELSE IF IsOSError(full_hash.exc)
             THEN UNCHANGED <<duplicates, pc, exit_code>>
           ELSE /\ pc' = "exit"
                /\ exit_code' = 1
                /\ UNCHANGED duplicates
  /\ UNCHANGED <<fs, argv, args, walk_i, table, print_i, reported>>

(* return duplicates *)
HashReturn ==
  /\ pc = "hash"
  /\ hash_i = Len(Flatten(table))
  /\ pc' = "print"
  /\ UNCHANGED <<fs, argv, args, walk_i, table, hash_i, duplicates,
                 hash_calls, print_i, reported, exit_code>>

(* A slip of the index: file_list[0] never raises for a group. *)
HasFirst(file_list) == Len(file_list) >= 1

(* A slip of the index: file_list[2]. *)
HasThird(file_list) == Len(file_list) >= 3

(* _ = file_list[1] does not raise IndexError. *)
HasSecond(file_list) == Len(file_list) >= 2

(* One iteration of the printing loop of the main block. *)
PrintGroup ==
  /\ pc = "print"
  /\ print_i < Len(duplicates)
  /\ print_i' = print_i + 1
  /\ LET file_list == duplicates[print_i + 1].val
     IN IF HasSecond(file_list)
          THEN reported' = Append(reported, file_list)
          ELSE reported' = reported
  /\ UNCHANGED <<fs, argv, pc, args, walk_i, table, hash_i, duplicates,
                 hash_calls, exit_code>>

(* The main block falls off its end: exit status 0. *)
Finish ==
  /\ pc = "print"
  /\ print_i = Len(duplicates)
  /\ pc' = "done"
  /\ exit_code' = 0
  /\ UNCHANGED <<fs, argv, args, walk_i, table, hash_i, duplicates,
                 hash_calls, print_i, reported>>

Next ==
  \/ ParseArgs
  \/ WalkEntry
  \/ WalkReturn
  \/ HashCandidate
  \/ HashReturn
  \/ PrintGroup
  \/ Finish

Spec == Init /\ [][Next]_vars

---------------------------------------------------------------------------
(* Vocabulary of the properties.                                           *)

(* The regular files of the tree. *)
Files == {p \in Slots : fs[p].kind = "file"}

(* The paths of the size index, in the order check_for_duplicates visits   *)
(* them.                                                                   *)
Candidates == Flatten(table)

Indexed == Range(Candidates)

Returned == pc \in {"print", "done"}

Readable(p) == fs[p].kind = "file" /\ fs[p].mode = "ok"

SameContent(p, q) == fs[p].content = fs[q].content

SameSize(p, q) == Len(fs[p].content) = Len(fs[q].content)

SamePrefix(p, q) ==
  read(fs[p].content, ChunkSize) = read(fs[q].content, ChunkSize)

InReportedGroup(p) == \E i \in DOMAIN reported : p \in Range(reported[i])

(* Grouping of a list of readable files by content, in list order. *)
RECURSIVE GroupByContent(_, _)
GroupByContent(paths, acc) ==
  IF paths = <<>> THEN acc
  ELSE GroupByContent(Tail(paths),
                      DictAppend(acc, fs[Head(paths)].content, Head(paths)))

---------------------------------------------------------------------------
(* C1: all paths under one key of the mapping built by                     *)
(* check_for_duplicates, and all paths of one printed group, have          *)
(* byte-for-byte identical content (the digest being injective).           *)
C1_SameGroupSameContent ==
  /\ \A i \in DOMAIN duplicates :
       \A p, q \in Range(duplicates[i].val) : SameContent(p, q)
  /\ \A i \in DOMAIN reported :
       \A p, q \in Range(reported[i]) : SameContent(p, q)

(* A group of two distinct files was printed while two other indexed files *)
(* of equal size agree on their first chunk and differ later.              *)
C1_Witness ==
  /\ pc = "done"
  /\ \E i \in DOMAIN reported : \E p, q \in Range(reported[i]) : p # q
  /\ \E p, q \in Indexed :
       /\ Readable(p) /\ Readable(q)
       /\ SameSize(p, q) /\ SamePrefix(p, q) /\ ~SameContent(p, q)

(* C2 as stated: the mapping returned by check_for_duplicates holds only   *)
(* groups of at least 2 paths.                                             *)
C2_ReturnedGroupsAtLeastTwo ==
  Returned => \A i \in DOMAIN duplicates : Len(duplicates[i].val) >= 2

(* C2 as amended: every group printed by the main block from the returned  *)
(* mapping has at least 2 paths.                                           *)
C2_ReportedGroupsAtLeastTwo ==
  \A i \in DOMAIN reported : Len(reported[i]) >= 2

(* The run printed a group while the returned mapping holds a singleton. *)
C2_Witness ==
  /\ pc = "done"
  /\ reported # <<>>
  /\ \E i \in DOMAIN duplicates : Len(duplicates[i].val) = 1

(* The size-group of an indexed path. *)
SizeGroup(p) == table[Index(table, Len(fs[p].content))].val

(* C3: a full-content hash of a file is computed only after every file of  *)
(* its size-group has been prefix-hashed and only if its prefix-hash       *)
(* subgroup has at least 2 members.                                        *)
C3_FullHashOnlyAfterPrefix ==
  \A i \in DOMAIN hash_calls :
    ~hash_calls[i].first_chunk_only =>
      LET p == hash_calls[i].path
          group == SizeGroup(p)
      IN /\ \A k \in DOMAIN group :
              \E j \in 1..(i - 1) :
                /\ hash_calls[j].path = group[k]
                /\ hash_calls[j].first_chunk_only
         /\ Cardinality({k \in DOMAIN group : SamePrefix(group[k], p)}) >= 2

(* C4: no file whose size is unique among the files of the tree appears in *)
(* a printed group.                                                        *)
C4_UniqueSizeNotReported ==
  \A p \in Files :
    InReportedGroup(p) => \E q \in Files : q # p /\ SameSize(p, q)

(* C5: no path of the size index has a base name that begins with '.'.     *)
C5_NoHiddenFileIndexed ==
  \A p \in Indexed : ~startswith(basename(p), ".")

(* C6: no path of the size index lies under a directory below the root     *)
(* whose base name begins with '.'.                                        *)
C6_NoHiddenDirTraversed ==
  \A p \in Indexed :
    \A k \in (Len(abs_path) + 1)..(Len(p) - 1) : ~startswith(p[k], ".")

(* C7: a file that cannot be opened or read is dropped and nothing else    *)
(* changes: the run does not end on the exception, every candidate is      *)
(* passed to get_hash, and the returned groups are those of the readable   *)
(* candidates alone.                                                       *)
C7_FailingFileDropped ==
  /\ exit_code # 1
  /\ Returned =>
       /\ \A p \in Indexed : \E i \in DOMAIN hash_calls : hash_calls[i].path = p
       /\ duplicates = GroupByContent(SelectSeq(Candidates, Readable), <<>>)

(* The run finished with an unreadable candidate visited before a readable *)
(* one, and printed a group.                                               *)
C7_Witness ==
  /\ pc = "done"
  /\ reported # <<>>
  /\ \E k, j \in DOMAIN Candidates :
       k < j /\ ~Readable(Candidates[k]) /\ Readable(Candidates[j])

(* C8: with a root that is missing or is not a directory the run fails     *)
(* with a non-zero exit and never reaches the hashing stage.               *)
C8_InvalidRootFails ==
  (argv.root_dir # NoArg /\ ~isdir(argv.root_dir)) =>
    /\ pc \notin {"hash", "print", "done"}
    /\ exit_code # 0

(* C9: a --chunk_size of zero or less ends the run in a usage error before *)
(* build_hash_table is called, and get_hash never runs with a chunk_size   *)
(* that is not positive.                                                   *)
C9_NonPositiveChunkRejected ==
  /\ (argv.chunk_size # NoArg /\ argv.chunk_size[1] <= 0) =>
       /\ pc \in {"parse", "exit"}
       /\ walk_i = 0 /\ table = <<>> /\ hash_calls = <<>>
       /\ pc = "exit" => exit_code = 2
  /\ \A i \in DOMAIN hash_calls : hash_calls[i].chunk_size > 0

(* A run with a valid root and a chunk size of zero or less has exited     *)
(* with status 2.                                                          *)
C9_Witness ==
  /\ pc = "exit"
  /\ exit_code = 2
  /\ argv.root_dir = RootDir
  /\ argv.chunk_size \in {<<0>>, <<-1>>}

(* A tree of readable regular files with visible names and no symlinks,    *)
(* scanned from its root.                                                  *)
CleanTree ==
  /\ args.ok /\ args.root_dir = RootDir
  /\ \A p \in Slots :
       /\ fs[p].kind \in {"none", "file"}
       /\ fs[p].kind = "file" =>
            fs[p].mode = "ok" /\ ~startswith(basename(p), ".")

(* C10: on such a tree any two files with identical content are printed    *)
(* together in one group and a file whose content differs from every other *)
(* file is in no printed group.                                            *)
C10_ScanComplete ==
  (pc = "done" /\ CleanTree) =>
    /\ \A p, q \in Files :
         (p # q /\ SameContent(p, q)) =>
           \E i \in DOMAIN reported : {p, q} \subseteq Range(reported[i])
    /\ \A p \in Files :
         (\A q \in Files \ {p} : ~SameContent(p, q)) => ~InReportedGroup(p)

(* a and b hold the same content, d/a differs from them in its last byte   *)
(* only: exactly the group (a, b) was printed.                             *)
C10_Witness ==
  /\ pc = "done"
  /\ CleanTree
  /\ Files = {PathA, PathB, PathDA}
  /\ fs[PathA].content = AllOnes
  /\ fs[PathB].content = AllOnes
  /\ fs[PathDA].content = [AllOnes EXCEPT ![MaxLen] = 2]
  /\ reported = << <<PathA, PathB>> >>

====
